---- MODULE Spec2Model ----
(***************************************************************************)
(* A model of las_dice: the spatial matcher (core/paths.py), the name      *)
(* resolver (core/utils.py), the output planner and clip executor          *)
(* (cli.py), the clipper (core/clipper.py) and the clip / run commands.    *)
(*                                                                         *)
(* Text that the code inspects character by character (names, suffixes,   *)
(* attribute values) is a sequence of one-character strings; a filesystem  *)
(* path is the sequence of its components.  Python's None is the value     *)
(* None.  An exception is the name of its class.                           *)
(***************************************************************************)
EXTENDS Integers, Sequences, FiniteSets, TLC

VARIABLES
    pc,             \* position of the caller: which operation ran last
    polygons,       \* the polygon GeoDataFrame in scope (poly_gdf)
    tindex,         \* the tile index GeoDataFrame in scope (tindex_gdf)
    intersections,  \* rows gpd.overlay returned to the last matcher call
    overlay_calls,  \* number of calls made to gpd.overlay
    matches,        \* the sequence of PolygonSources the matcher returned
    las_crs,        \* the last collection given to ensure_consistent_las_crs by a
                    \* direct caller, and what the call returned or raised
    raised,         \* class of the exception that ended the operation, or None
    message,        \* str(exc) of that exception
    cause,          \* class of the exception a handler turned into `raised`
    options,        \* the caller's configuration: naming, outdir, overwrite flag
    planned,        \* plan entries (record, output_path) of _plan_outputs
    empties,        \* polygon ids _plan_outputs routed to the empties list
    sanitized,      \* the last text given to the name resolver, and its results
    fs,             \* the set of paths that exist on the filesystem
    results,        \* result rows of the running / last _execute_clips
    idx,            \* index of the next plan entry of the executor loop
    checked,        \* per processed entry: what output_path.exists() returned
    tool,           \* what `pdal pipeline` does if run for the entry last reached
    invocations,    \* log of the runs of `pdal pipeline` the executor caused
    run,            \* how many times _execute_clips has been started
    summary         \* what _summarise_results computed and logged

vars == <<pc, polygons, tindex, intersections, overlay_calls, matches, las_crs, raised,
          message, cause, options, planned, empties, sanitized, fs, results, idx, checked,
          tool, invocations, run, summary>>

matcherVars == <<polygons, tindex, intersections, overlay_calls, matches, las_crs>>
plannerVars == <<options, planned, empties, sanitized>>
executorVars == <<fs, results, idx, checked, tool, invocations, run, summary>>

(***************************************************************************)
(* Bounds of the model.                                                    *)
(***************************************************************************)
MaxPolys == 3
MaxPairs == 3

None == "None"

(***************************************************************************)
(* Sequence helpers.                                                       *)
(***************************************************************************)
Range(s) == {s[i] : i \in 1..Len(s)}

\* sequences over S with no repeated element, of length at most k
DistinctSeqs(S, k) ==
    UNION {{s \in [1..m -> S] : \A i, j \in 1..m : i # j => s[i] # s[j]} : m \in 0..k}

(***************************************************************************)
(* core/crs.py.  A pyproj CRS object is modelled by the definition it was  *)
(* built from; to_string() gives its canonical form, which differs from    *)
(* the definition when the definition is not already canonical.            *)
(***************************************************************************)
CrsDefinitions == {"EPSG:4326", "epsg:4326", "EPSG:3857"}

to_string(crs) ==
    CASE crs = "EPSG:4326" -> "EPSG:4326"
      [] crs = "epsg:4326" -> "EPSG:4326"
      [] crs = "EPSG:3857" -> "EPSG:3857"

\* what CRS.from_user_input cannot parse
UnparseableCrs == {"bogus"}

\* results of a call: the value returned, or the exception raised
Ok(v) == [raised |-> None, message |-> "", value |-> v]
Raise(e, text) == [raised |-> e, message |-> text, value |-> None]

_to_crs(crs_input) ==
    IF crs_input = None THEN Raise("CRSValidationError", "CRS is undefined")
    ELSE IF crs_input \in UnparseableCrs THEN Raise("CRSValidationError", "Invalid CRS")
    ELSE Ok(crs_input)

RECURSIVE resolve_all(_)
\* the loop of ensure_consistent_las_crs: the first exception ends it
resolve_all(crs_candidates) ==
    IF crs_candidates = <<>> THEN Ok(<<>>)
    ELSE IF Head(crs_candidates) = None
    THEN Raise("CRSValidationError", "Encountered LAS source without CRS")
    ELSE LET one == _to_crs(Head(crs_candidates)) IN
         IF one.raised # None THEN one
         ELSE LET rest == resolve_all(Tail(crs_candidates)) IN
              IF rest.raised # None THEN rest
              ELSE Ok(<<one.value>> \o rest.value)

ensure_consistent_las_crs_checking_head(crs_candidates) ==
    LET resolved == resolve_all(crs_candidates) IN
    IF resolved.raised # None THEN resolved
    ELSE IF resolved.value = <<>>
         THEN Raise("CRSValidationError", "No LAS CRS information was provided")
         ELSE Ok(resolved.value[1])

ensure_consistent_las_crs(crs_candidates) ==
    LET resolved == resolve_all(crs_candidates) IN
    IF resolved.raised # None THEN resolved
    ELSE LET unique == {to_string(resolved.value[i]) : i \in 1..Len(resolved.value)} IN
         IF unique = {}
         THEN Raise("CRSValidationError", "No LAS CRS information was provided")
         ELSE IF Cardinality(unique) > 1
         THEN Raise("CRSValidationError", "Mixed CRS detected across LAS sources")
         ELSE Ok(resolved.value[1])

\* before ensure_consistent_las_crs has been called
NoCrsCheck == [candidates |-> <<>>, called |-> FALSE, value |-> None]

(***************************************************************************)
(* core/paths.py: the spatial matcher.                                     *)
(***************************************************************************)
PATH_FIELD == "filepath"

PolygonSources(polygon_id, source_paths) ==
    [polygon_id |-> polygon_id, source_paths |-> source_paths]

\* A pathlib.Path is its parent's components and its final component.
\* Path(text) of a text without separators is a path of one component.
Path(text) == [parent |-> <<>>, name |-> text]

\* outdir / filename
JoinPath(dir, filename) ==
    [parent |-> (IF dir.name = <<>> THEN dir.parent ELSE Append(dir.parent, dir.name)),
     name |-> filename]

RECURSIVE join_components(_)
join_components(parts) ==
    IF parts = <<>> THEN <<>>
    ELSE IF Len(parts) = 1 THEN Head(parts)
    ELSE Head(parts) \o <<"/">> \o join_components(Tail(parts))

\* str(path): the components joined by the separator
str_path(path) == join_components(Append(path.parent, path.name))

PolygonCrsUndefined == "Polygon CRS is undefined; cannot intersect"
TindexCrsUndefined == "Tile index CRS is undefined; rebuild or annotate it"
CrsDiffer == "Polygon and tile index CRS differ; reproject polygons to match LAS CRS"
MissingColumn == "Tile index missing required column 'filepath'"

ensure_crs_match_without_comparison(polys, tiles) ==
    LET las == ensure_consistent_las_crs(<<tiles.crs>>) IN
    IF las.raised # None THEN Raise("SourceSelectionError", las.message)
    ELSE IF polys.crs = None THEN Raise("SourceSelectionError", PolygonCrsUndefined)
    ELSE Ok(None)

_ensure_crs_match(polys, tiles) ==
    LET las == ensure_consistent_las_crs(<<tiles.crs>>) IN
    IF las.raised # None THEN Raise("SourceSelectionError", las.message)
    ELSE IF polys.crs = None THEN Raise("SourceSelectionError", PolygonCrsUndefined)
    ELSE IF las.value = None THEN Raise("SourceSelectionError", TindexCrsUndefined)
    ELSE IF to_string(polys.crs) # to_string(las.value)
         THEN Raise("SourceSelectionError", CrsDiffer)
    ELSE Ok(None)

append_to_mapping_in_front(mapping, polygon_idx, path) ==
    IF \E i \in 1..Len(mapping) : mapping[i].polygon_id = polygon_idx
    THEN [i \in 1..Len(mapping) |->
            IF mapping[i].polygon_id = polygon_idx
            THEN PolygonSources(polygon_idx, <<path>> \o mapping[i].source_paths)
            ELSE mapping[i]]
    ELSE Append(mapping, PolygonSources(polygon_idx, <<path>>))

\* mapping[polygon_idx].append(path) on a dict kept in insertion order
append_to_mapping(mapping, polygon_idx, path) ==
    IF \E i \in 1..Len(mapping) : mapping[i].polygon_id = polygon_idx
    THEN [i \in 1..Len(mapping) |->
            IF mapping[i].polygon_id = polygon_idx
            THEN PolygonSources(polygon_idx, Append(mapping[i].source_paths, path))
            ELSE mapping[i]]
    ELSE Append(mapping, PolygonSources(polygon_idx, <<path>>))

RECURSIVE group_rows(_, _)
\* the loop over intersections.iterrows(), from the mapping built so far
group_rows(mapping, rows) ==
    IF rows = <<>> THEN mapping
    ELSE group_rows(append_to_mapping(mapping, Head(rows).index,
                                      Path(Head(rows).filepath)),
                    Tail(rows))

\* The geometry engine is external: `engine` is what gpd.overlay does when
\* it is called, [raised, rows], rows in the engine's discovery order.
\* The result also says how many times gpd.overlay was called.
match_polygons_to_sources(polys, tiles, engine) ==
    IF PATH_FIELD \notin tiles.columns
    THEN [raised |-> "SourceSelectionError", message |-> MissingColumn,
          value |-> None, overlay_calls |-> 0]
    ELSE IF _ensure_crs_match(polys, tiles).raised # None
    THEN [raised |-> _ensure_crs_match(polys, tiles).raised,
          message |-> _ensure_crs_match(polys, tiles).message,
          value |-> None, overlay_calls |-> 0]
    ELSE IF engine.raised # None
    THEN [raised |-> engine.raised, message |-> engine.message,
          value |-> None, overlay_calls |-> 1]
    ELSE [raised |-> None, message |-> "",
          value |-> group_rows(<<>>, engine.rows), overlay_calls |-> 1]

RECURSIVE insert_by_polygon_id(_, _)
\* insert entry after every element whose key is <= its key (stable)
insert_by_polygon_id(sortedSeq, entry) ==
    IF sortedSeq = <<>> THEN <<entry>>
    ELSE IF Head(sortedSeq).polygon_id <= entry.polygon_id
    THEN <<Head(sortedSeq)>> \o insert_by_polygon_id(Tail(sortedSeq), entry)
    ELSE <<entry>> \o sortedSeq

RECURSIVE sorted_by_polygon_id(_)
\* sorted(all_results, key=lambda entry: entry.polygon_id): a stable sort
sorted_by_polygon_id(entries) ==
    IF entries = <<>> THEN <<>>
    ELSE insert_by_polygon_id(
             sorted_by_polygon_id(SubSeq(entries, 1, Len(entries) - 1)),
             entries[Len(entries)])

RECURSIVE empty_reports(_, _)
\* the PolygonSources appended for the ids of `index` not in matched_ids
empty_reports(index, matched_ids) ==
    IF index = <<>> THEN <<>>
    ELSE (IF Head(index) \notin matched_ids
          THEN <<PolygonSources(Head(index), <<>>)>> ELSE <<>>)
         \o empty_reports(Tail(index), matched_ids)

match_without_empty_reports(polys, tiles, engine) ==
    LET m == match_polygons_to_sources(polys, tiles, engine) IN
    IF m.raised # None THEN m
    ELSE [m EXCEPT !.value = sorted_by_polygon_id(m.value)]

match_with_empty_reports_unsorted(polys, tiles, engine) ==
    LET m == match_polygons_to_sources(polys, tiles, engine) IN
    IF m.raised # None THEN m
    ELSE LET matched_ids == {m.value[i].polygon_id : i \in 1..Len(m.value)}
             all_results == m.value \o empty_reports(polys.index, matched_ids)
         IN  [m EXCEPT !.value = all_results]

match_polygons_with_empty_reports(polys, tiles, engine) ==
    LET m == match_polygons_to_sources(polys, tiles, engine) IN
    IF m.raised # None THEN m
    ELSE LET matched_ids == {m.value[i].polygon_id : i \in 1..Len(m.value)}
             all_results == m.value \o empty_reports(polys.index, matched_ids)
         IN  [m EXCEPT !.value = sorted_by_polygon_id(all_results)]

(***************************************************************************)
(* core/utils.py: the name resolver.                                       *)
(***************************************************************************)
Letters == {"a", "b", "c", "d", "e", "g", "l", "m", "n", "o", "p", "s", "u", "v", "y", "T"}
Digits == {"0", "1", "2", "3", "4", "5", "6", "7", "8", "9"}

\* letters outside ASCII, which str.isalnum accepts and [A-Za-z0-9_-] does not
NonAsciiLetters == {"é"}

\* ch.isalnum()
isalnum(ch) == ch \in Letters \cup Digits \cup NonAsciiLetters

RECURSIVE lstrip(_, _)
lstrip(text, ch) ==
    IF text # <<>> /\ Head(text) = ch THEN lstrip(Tail(text), ch) ELSE text

RECURSIVE rstrip(_, _)
rstrip(text, ch) ==
    IF text # <<>> /\ text[Len(text)] = ch
    THEN rstrip(SubSeq(text, 1, Len(text) - 1), ch) ELSE text

\* text.strip(ch)
strip(text, ch) == rstrip(lstrip(text, ch), ch)

Unnamed == <<"u", "n", "n", "a", "m", "e", "d">>
Polygon == <<"p", "o", "l", "y", "g", "o", "n">>
LasExtension == <<".", "l", "a", "s">>

sanitize_stripping_first(value) ==
    LET cleaned == [i \in 1..Len(strip(value, "_")) |->
                      IF isalnum(strip(value, "_")[i]) \/ strip(value, "_")[i] \in {"-", "_"}
                      THEN strip(value, "_")[i] ELSE "_"]
    IN  IF cleaned = <<>> THEN Unnamed ELSE cleaned

sanitize(value) ==
    LET cleaned == strip([i \in 1..Len(value) |->
                            IF isalnum(value[i]) \/ value[i] \in {"-", "_"}
                            THEN value[i] ELSE "_"], "_")
    IN  IF cleaned = <<>> THEN Unnamed ELSE cleaned

\* before the name resolver has been applied: the text and the suffix it is
\* given, what each module's sanitize and name getter return for them
NoName == [text |-> <<>>, suffix |-> <<>>, utils |-> <<>>, naming |-> <<>>,
           utils_name |-> <<>>, naming_name |-> <<>>]

\* An optional text the code only tests for truth (`if options.suffix`):
\* None and the empty text are both the empty sequence.
NoText == <<>>

\* NamingOptions(field, suffix); the getter applied to one attribute dict
name_getter(naming, attributes) ==
    LET base == IF naming.field # None
                THEN (IF naming.field \in DOMAIN attributes
                      THEN attributes[naming.field] ELSE <<>>)
                ELSE Polygon
        stem == sanitize(base)
    IN  IF naming.suffix # NoText
        THEN stem \o <<"_">> \o sanitize(naming.suffix)
        ELSE stem

build_output_path(name, outdir) == JoinPath(outdir, name \o LasExtension)

(***************************************************************************)
(* core/naming.py: the second name resolver.                               *)
(***************************************************************************)
\* one character of the class [^A-Za-z0-9_-]
INVALID_CHARS(ch) == ch \notin Letters \cup Digits \cup {"_", "-"}

\* INVALID_CHARS.sub(repl, text): the pattern ends in +, so every maximal run
\* of invalid characters is one match and is replaced by one repl
RECURSIVE re_sub(_, _)
re_sub(repl, text) ==
    IF text = <<>> THEN <<>>
    ELSE IF INVALID_CHARS(Head(text))
         THEN IF Len(text) > 1 /\ INVALID_CHARS(text[2])
              THEN re_sub(repl, Tail(text))
              ELSE <<repl>> \o re_sub(repl, Tail(text))
         ELSE <<Head(text)>> \o re_sub(repl, Tail(text))

naming_sanitize(value) ==
    LET cleaned == strip(re_sub("_", value), "_")
    IN  IF cleaned = <<>> THEN Unnamed ELSE cleaned

\* build_name_getter(field, suffix); the getter applied to one attribute dict
naming_name_getter(field, suffix, attributes) ==
    LET base == IF field # None
                THEN (IF field \in DOMAIN attributes
                      THEN attributes[field] ELSE <<>>)
                ELSE Polygon
        stem == naming_sanitize(base)
    IN  IF suffix # NoText
        THEN stem \o <<"_">> \o naming_sanitize(suffix)
        ELSE stem

(***************************************************************************)
(* cli.py: the name wrapper and the output planner.                        *)
(***************************************************************************)
\* poly_gdf.iloc[polygon_id].to_dict(), with polygon_id set by default
row_attributes(poly_gdf, polygon_id) ==
    [name |-> poly_gdf.attrs[polygon_id + 1], polygon_id |-> polygon_id]

\* the wrapper as a function of the polygon id
_build_name_wrapper(poly_gdf, name_field, suffix) ==
    [polygon_id \in Range(poly_gdf.index) |->
        name_getter([field |-> name_field, suffix |-> suffix],
                    row_attributes(poly_gdf, polygon_id))]

RECURSIVE plan_outputs_keeping_empties(_, _, _, _)
plan_outputs_keeping_empties(poly_gdf, records, outdir, name_builder) ==
    IF records = <<>> THEN [planned |-> <<>>, empties |-> <<>>]
    ELSE LET record == Head(records)
             rest == plan_outputs_keeping_empties(poly_gdf, Tail(records), outdir,
                                                  name_builder)
             output_path == build_output_path(name_builder[record.polygon_id], outdir)
         IN  IF record.source_paths = <<>>
             THEN [planned |-> <<[record |-> record, output_path |-> output_path]>>
                               \o rest.planned,
                   empties |-> <<record.polygon_id>> \o rest.empties]
             ELSE [rest EXCEPT !.planned =
                      <<[record |-> record, output_path |-> output_path]>> \o @]

RECURSIVE _plan_outputs(_, _, _, _)
\* the loop over matches, from the first record on
_plan_outputs(poly_gdf, records, outdir, name_builder) ==
    IF records = <<>> THEN [planned |-> <<>>, empties |-> <<>>]
    ELSE LET record == Head(records)
             rest == _plan_outputs(poly_gdf, Tail(records), outdir, name_builder)
         IN  IF record.source_paths = <<>>
             THEN [rest EXCEPT !.empties = <<record.polygon_id>> \o @]
             ELSE LET name == name_builder[record.polygon_id]
                      output_path == build_output_path(name, outdir)
                  IN  [rest EXCEPT !.planned =
                          <<[record |-> record, output_path |-> output_path]>> \o @]

(***************************************************************************)
(* core/clipper.py.  The external tool is `pdal pipeline --stdin`; `pdal`  *)
(* is what it does when run: its exit status, its stderr, and whether the  *)
(* file named by the writer stage exists afterwards.                       *)
(***************************************************************************)
PdalOutcomes ==
    {[returncode |-> 0, stderr |-> "", writes |-> TRUE],
     [returncode |-> 1, stderr |-> "pdal: failed", writes |-> FALSE],
     [returncode |-> 1, stderr |-> "pdal: failed", writes |-> TRUE]}

\* before any entry is reached, and for an entry the tool is not asked about
NoTool == [returncode |-> -1, stderr |-> "", writes |-> FALSE]

\* path.parent of a path with a parent
ParentOf(path) ==
    [parent |-> SubSeq(path.parent, 1, Len(path.parent) - 1),
     name |-> path.parent[Len(path.parent)]]

\* _ensure_output_dir, _build_pipeline and _run_pipeline for one record:
\* the directory is made, the tool runs once, a non-zero status raises
run_clip(record, output_path, pdal, files) ==
    [raised |-> IF pdal.returncode # 0 THEN "ClippingError" ELSE None,
     message |-> IF pdal.returncode # 0 THEN pdal.stderr ELSE "",
     files |-> files
               \cup (IF output_path.parent # <<>> THEN {ParentOf(output_path)} ELSE {})
               \cup (IF pdal.writes THEN {output_path} ELSE {}),
     invoked |-> <<[polygon_id |-> record.polygon_id,
                    inputs |-> record.source_paths,
                    output |-> output_path,
                    returncode |-> pdal.returncode]>>]

RECURSIVE clip_polygons(_, _, _, _, _)
\* name_builder is a function of the polygon id; `pdal` is what the tool
\* does in each run.  The result: exception, the files and the runs made.
clip_polygons(polygon_records, output_dir, name_builder, pdal, files) ==
    IF polygon_records = <<>>
    THEN [raised |-> None, message |-> "", files |-> files, invoked |-> <<>>]
    ELSE LET record == Head(polygon_records) IN
         IF record.source_paths = <<>>
         THEN clip_polygons(Tail(polygon_records), output_dir, name_builder, pdal, files)
         ELSE LET output_path == JoinPath(output_dir, name_builder[record.polygon_id])
                  one == run_clip(record, output_path, pdal, files)
              IN  IF one.raised # None THEN one
                  ELSE LET rest == clip_polygons(Tail(polygon_records), output_dir,
                                                 name_builder, pdal, one.files)
                       IN  [rest EXCEPT !.invoked = one.invoked \o @]

\* the parameters clip_polygons declares
ClipPolygonsParameters ==
    {"polygons", "polygon_records", "output_dir", "name_builder", "forward_vlrs"}

(***************************************************************************)
(* cli.py: the clip executor.                                              *)
(***************************************************************************)
\* the keyword arguments _execute_clips passes to clipper.clip_polygons
ExecutorKeywords ==
    {"polygons", "polygon_records", "output_dir", "name_builder", "output_srs"}

\* a call that binds whatever keywords it is given
call_clip_polygons_ignoring_keywords(keywords, polygon_records, output_dir, name_builder, pdal, files) ==
    clip_polygons(polygon_records, output_dir, name_builder, pdal, files)

\* Python binds the keywords to the parameters before the body runs; a
\* keyword that names no parameter raises TypeError and nothing has run
call_clip_polygons(keywords, polygon_records, output_dir, name_builder, pdal, files) ==
    IF keywords \subseteq ClipPolygonsParameters
    THEN clip_polygons(polygon_records, output_dir, name_builder, pdal, files)
    ELSE [raised |-> "TypeError",
          message |-> "clip_polygons() got an unexpected keyword argument",
          files |-> files, invoked |-> <<>>]

Row(record, output_path, status) ==
    [polygon_id |-> record.polygon_id, output |-> str_path(output_path),
     sources |-> Len(record.source_paths), status |-> status]

error_row_with_file_name(record, output_path, text) ==
    [polygon_id |-> record.polygon_id, output |-> output_path.name,
     sources |-> Len(record.source_paths), status |-> "error", error |-> text]

ErrorRow(record, output_path, text) ==
    [polygon_id |-> record.polygon_id, output |-> str_path(output_path),
     sources |-> Len(record.source_paths), status |-> "error", error |-> text]

execute_entry_without_exists_check(entry, outdir, pdal, files) ==
    LET clip == call_clip_polygons(
                    ExecutorKeywords, <<entry.record>>, outdir,
                    [polygon_id \in {entry.record.polygon_id} |-> entry.output_path.name],
                    pdal, files)
    IN  IF clip.raised # None
        THEN [existed |-> FALSE,
              row |-> ErrorRow(entry.record, entry.output_path, clip.message),
              files |-> clip.files, invoked |-> clip.invoked]
        ELSE [existed |-> FALSE,
              row |-> Row(entry.record, entry.output_path, "written"),
              files |-> clip.files, invoked |-> clip.invoked]

\* one iteration of the loop of _execute_clips, for one plan entry
execute_entry(entry, outdir, pdal, files) ==
    IF entry.output_path \in files
    THEN [existed |-> TRUE, row |-> Row(entry.record, entry.output_path, "exists"),
          files |-> files, invoked |-> <<>>]
    ELSE LET clip == call_clip_polygons(
                         ExecutorKeywords, <<entry.record>>, outdir,
                         [polygon_id \in {entry.record.polygon_id} |->
                             entry.output_path.name],
                         pdal, files)
         IN  IF clip.raised # None
             THEN [existed |-> FALSE,
                   row |-> ErrorRow(entry.record, entry.output_path, clip.message),
                   files |-> clip.files, invoked |-> clip.invoked]
             ELSE [existed |-> FALSE,
                   row |-> Row(entry.record, entry.output_path, "written"),
                   files |-> clip.files, invoked |-> clip.invoked]

(***************************************************************************)
(* Inputs of the matcher.  A polygon GeoDataFrame has the index 0..n-1 the *)
(* reader gives it, a CRS (or None) and one attribute, "name", per row.    *)
(***************************************************************************)
NameValues == << <<"a">>, <<"b", "/">>, <<"_", "c">>, <<"a", " ">> >>

\* two attribute tables: rows that differ, rows all alike
DistinctAttrs(n) == [i \in 1..n |-> NameValues[((i - 1) % Len(NameValues)) + 1]]

AttrTables(n) == {DistinctAttrs(n), [i \in 1..n |-> NameValues[1]]}

CrsValues == {None} \cup CrsDefinitions

PolygonFrame(n, crs, attrs) ==
    [index |-> [i \in 1..n |-> i - 1], crs |-> crs, attrs |-> attrs]

PolygonFrames ==
    {PolygonFrame(Len(attrs), crs, attrs) :
        crs \in CrsValues, attrs \in UNION {AttrTables(n) : n \in 1..MaxPolys}}

\* the matcher reads no attribute: one table is enough for it
MatcherFrames == {f \in PolygonFrames : f.attrs = DistinctAttrs(Len(f.attrs))}

NoFrame == [index |-> <<>>, crs |-> None, attrs |-> <<>>]

T1 == <<"T", "1">>
T2 == <<"T", "2">>

\* the file paths of the rows of a tile index: one tile, two tiles, and two
\* rows that carry the same file path
TileTables == {<<T1>>, <<T1, T2>>, <<T1, T1>>}

TileIndexes ==
    {[columns |-> cols, crs |-> crs, paths |-> paths] :
        cols \in {{"geometry", "filepath"}, {"geometry", "location"}},
        crs \in CrsValues,
        paths \in TileTables}

NoIndex == [columns |-> {}, crs |-> None, paths |-> <<>>]

\* what the engine may do when called with these frames: fail, or report
\* some (polygon, tile row) pairs, each once, in any order
NotCalled == [raised |-> None, message |-> "", rows |-> <<>>]

EngineOutcomes(polys, tiles) ==
    {[raised |-> "EngineError", message |-> "overlay failed", rows |-> <<>>]}
    \cup {[raised |-> None, message |-> "",
           rows |-> [i \in 1..Len(s) |->
                        [index |-> s[i][1], filepath |-> tiles.paths[s[i][2]]]]] :
            s \in DistinctSeqs(Range(polys.index) \X (1..Len(tiles.paths)), MaxPairs)}

\* the engine is consulted only when the matcher reaches gpd.overlay
EngineChoices(polys, tiles) ==
    IF match_polygons_to_sources(polys, tiles, NotCalled).overlay_calls = 0
    THEN {NotCalled}
    ELSE EngineOutcomes(polys, tiles)

(***************************************************************************)
(* State before any operation: nothing read, nothing matched or planned,   *)
(* no executor run; `files` is what the output directory already holds.    *)
(***************************************************************************)
NoOptions == [field |-> None, suffix |-> NoText, outdir |-> Path(<<>>), overwrite |-> FALSE,
              crs_policy |-> "strict"]

\* before _summarise_results has run
NoSummary == [written |-> 0, skipped |-> 0, errors |-> <<>>, lines |-> <<>>]

Idle(files) ==
    /\ pc = "idle"
    /\ polygons = NoFrame
    /\ tindex = NoIndex
    /\ intersections = <<>>
    /\ overlay_calls = 0
    /\ matches = <<>>
    /\ las_crs = NoCrsCheck
    /\ raised = None
    /\ message = ""
    /\ cause = None
    /\ options = NoOptions
    /\ planned = <<>>
    /\ empties = <<>>
    /\ sanitized = NoName
    /\ fs = files
    /\ results = <<>>
    /\ idx = 0
    /\ checked = <<>>
    /\ tool = NoTool
    /\ invocations = <<>>
    /\ run = 0
    /\ summary = NoSummary

(***************************************************************************)
(* The matcher called directly (paths.py is a library module).             *)
(***************************************************************************)
MatcherReturns(polys, tiles, engine, outcome, where) ==
    /\ polygons' = polys
    /\ tindex' = tiles
    /\ intersections' = IF outcome.overlay_calls > 0 THEN engine.rows ELSE <<>>
    /\ overlay_calls' = overlay_calls + outcome.overlay_calls
    /\ raised' = outcome.raised
    /\ message' = outcome.message
    /\ matches' = IF outcome.raised = None THEN outcome.value ELSE <<>>
    /\ las_crs' = las_crs
    /\ pc' = IF outcome.raised = None THEN where ELSE "matcher_raised"

\* the reconciliation policies a caller may want; the matcher has no
\* parameter to receive one
CrsPolicies == {"strict", "permissive"}

MatchToSources ==
    /\ pc = "idle"
    /\ \E polys \in MatcherFrames, tiles \in TileIndexes :
         \E engine \in EngineChoices(polys, tiles) :
            MatcherReturns(polys, tiles, engine,
                           match_polygons_to_sources(polys, tiles, engine),
                           "sources_returned")
    /\ \E policy \in CrsPolicies : options' = [options EXCEPT !.crs_policy = policy]
    /\ UNCHANGED <<cause, planned, empties, sanitized, executorVars>>

MatchWithEmptyReports ==
    /\ pc = "idle"
    /\ \E polys \in MatcherFrames, tiles \in TileIndexes :
         \E engine \in EngineChoices(polys, tiles) :
            MatcherReturns(polys, tiles, engine,
                           match_polygons_with_empty_reports(polys, tiles, engine),
                           "matched")
    /\ \E policy \in CrsPolicies : options' = [options EXCEPT !.crs_policy = policy]
    /\ UNCHANGED <<cause, planned, empties, sanitized, executorVars>>

InitMatch == Idle({})

NextMatch == MatchToSources \/ MatchWithEmptyReports

SpecMatch == InitMatch /\ [][NextMatch]_vars

(***************************************************************************)
(* The planner and the executor, run by a caller that has matched.         *)
(***************************************************************************)
OutDir == Path(<<"o", "u", "t">>)

NamingChoices ==
    {[field |-> f, suffix |-> x] :
        f \in {None, "name", "zone"}, x \in {NoText, <<"v", "1">>}}

\* what the output directory may hold before the first run
FsChoices ==
    SUBSET {build_output_path(Polygon, OutDir), build_output_path(<<"a">>, OutDir)}

\* the frames and tile indexes on which matching succeeds in one CRS
ClipFrames == {f \in PolygonFrames : f.crs = "EPSG:4326"}
ClipIndexes == {t \in TileIndexes : t.crs = "EPSG:4326" /\ PATH_FIELD \in t.columns}

Matched(polys, result) ==
    /\ pc = "matched"
    /\ polygons = polys
    /\ tindex = NoIndex
    /\ intersections = <<>>
    /\ overlay_calls = result.overlay_calls
    /\ matches = result.value
    /\ las_crs = NoCrsCheck
    /\ raised = None
    /\ message = ""
    /\ cause = None
    /\ options = NoOptions
    /\ planned = <<>>
    /\ empties = <<>>
    /\ sanitized = NoName
    /\ results = <<>>
    /\ idx = 0
    /\ checked = <<>>
    /\ tool = NoTool
    /\ invocations = <<>>
    /\ run = 0
    /\ summary = NoSummary

Init ==
    \E polys \in ClipFrames, tiles \in ClipIndexes, files \in FsChoices :
        \E engine \in EngineOutcomes(polys, tiles) :
            LET result == match_polygons_with_empty_reports(polys, tiles, engine) IN
            /\ result.raised = None
            /\ Matched(polys, result)
            /\ fs = files

\* RunConfig.overwrite, the flag the caller may set: set with one naming
OverwriteChoices(naming) ==
    IF naming.field = None /\ naming.suffix = NoText THEN BOOLEAN ELSE {FALSE}

PlanOutputs ==
    /\ pc = "matched"
    /\ \E naming \in NamingChoices :
       \E overwrite \in OverwriteChoices(naming) :
         LET name_wrapper == _build_name_wrapper(polygons, naming.field, naming.suffix)
             plan == _plan_outputs(polygons, matches, OutDir, name_wrapper)
         IN  /\ options' = [field |-> naming.field, suffix |-> naming.suffix,
                            outdir |-> OutDir, overwrite |-> overwrite,
                            crs_policy |-> options.crs_policy]
             /\ planned' = plan.planned
             /\ empties' = plan.empties
    /\ pc' = "planned"
    /\ UNCHANGED <<matcherVars, raised, message, cause, sanitized, executorVars>>

\* _execute_clips is run at most twice over one plan
Runs == {1, 2}

\* results = []; an empty plan returns at once
ExecuteStart ==
    /\ pc \in {"planned", "executed"}
    /\ run + 1 \in Runs
    /\ run' = run + 1
    /\ results' = <<>>
    /\ checked' = <<>>
    /\ idx' = 1
    /\ tool' = NoTool
    /\ pc' = IF planned = <<>> THEN "executed" ELSE "executing"
    /\ UNCHANGED <<matcherVars, raised, message, cause, plannerVars, fs, invocations,
                   summary>>

\* an iteration that also checks the next entry's output ahead of time
ExecuteStepCheckingAhead ==
    /\ pc = "executing"
    /\ \E pdal \in PdalOutcomes :
         LET step == execute_entry(planned[idx], options.outdir, pdal, fs) IN
         /\ results' = Append(results, step.row)
         /\ checked' = Append(checked, step.existed)
                \o (IF idx < Len(planned)
                    THEN <<planned[idx + 1].output_path \in fs>> ELSE <<>>)
         /\ tool' = IF step.existed THEN NoTool ELSE pdal
         /\ fs' = step.files
         /\ invocations' = invocations \o
                [i \in 1..Len(step.invoked) |->
                    [run |-> run, entry |-> idx, output |-> step.invoked[i].output,
                     returncode |-> step.invoked[i].returncode]]
    /\ idx' = idx + 1
    /\ pc' = IF idx = Len(planned) THEN "executed" ELSE "executing"
    /\ UNCHANGED <<matcherVars, raised, message, cause, plannerVars, run, summary>>

\* one iteration of the loop; after the last one the results are returned
ExecuteStep ==
    /\ pc = "executing"
    /\ \E pdal \in PdalOutcomes :
         LET step == execute_entry(planned[idx], options.outdir, pdal, fs) IN
         /\ results' = Append(results, step.row)
         /\ checked' = Append(checked, step.existed)
         /\ tool' = IF step.existed THEN NoTool ELSE pdal
         /\ fs' = step.files
         /\ invocations' = invocations \o
                [i \in 1..Len(step.invoked) |->
                    [run |-> run, entry |-> idx, output |-> step.invoked[i].output,
                     returncode |-> step.invoked[i].returncode]]
    /\ idx' = idx + 1
    /\ pc' = IF idx = Len(planned) THEN "executed" ELSE "executing"
    /\ UNCHANGED <<matcherVars, raised, message, cause, plannerVars, run, summary>>

Next == PlanOutputs \/ ExecuteStart \/ ExecuteStep

Spec == Init /\ [][Next]_vars

(***************************************************************************)
(* cli.py: the run reporter.  A log line is the record of the text and the *)
(* values formatted into it.                                               *)
(***************************************************************************)
IsWritten(row) == row.status = "written"
IsExists(row) == row.status = "exists"
IsError(row) == row.status = "error"

SummaryLine(written, skipped, errors) ==
    [text |-> "Run summary: {} written, {} skipped (already existed), {} errors",
     written |-> written, skipped |-> skipped, errors |-> errors]

ErrorHeader == [text |-> "Errored polygons:"]

ErrorLine(row) ==
    [text |-> "  Polygon {} -> {}: {}",
     polygon_id |-> row.polygon_id, output |-> row.output, error |-> row.error]

\* every row that is not `written` counted as skipped
summarise_counting_errors_as_skipped(rows) ==
    LET written == Len(SelectSeq(rows, IsWritten))
        skipped == Len(rows) - written
        errors == SelectSeq(rows, IsError)
    IN  [written |-> written, skipped |-> skipped, errors |-> errors,
         lines |-> <<SummaryLine(written, skipped, Len(errors))>>
                   \o (IF errors # <<>>
                       THEN <<ErrorHeader>> \o [i \in 1..Len(errors) |-> ErrorLine(errors[i])]
                       ELSE <<>>)]

\* the counts, the error rows, and the lines passed to log_info in order
_summarise_results(rows) ==
    LET written == Len(SelectSeq(rows, IsWritten))
        skipped == Len(SelectSeq(rows, IsExists))
        errors == SelectSeq(rows, IsError)
    IN  [written |-> written, skipped |-> skipped, errors |-> errors,
         lines |-> <<SummaryLine(written, skipped, Len(errors))>>
                   \o (IF errors # <<>>
                       THEN <<ErrorHeader>> \o [i \in 1..Len(errors) |-> ErrorLine(errors[i])]
                       ELSE <<>>)]

\* the messages an error row may carry
ErrorTexts == {"pdal: failed", "clip_polygons() got an unexpected keyword argument"}

\* the rows _execute_clips can build for plan entry i
RowsFor(i) ==
    LET record == PolygonSources(i - 1, <<Path(T1)>>)
        output_path == build_output_path(Polygon, OutDir)
    IN  {Row(record, output_path, "written"), Row(record, output_path, "exists")}
        \cup {ErrorRow(record, output_path, text) : text \in ErrorTexts}

\* result lists of up to MaxPolys rows
RowLists ==
    UNION {{rows \in [1..n -> UNION {RowsFor(i) : i \in 1..n}] :
               \A i \in 1..n : rows[i] \in RowsFor(i)} : n \in 0..MaxPolys}

\* _execute_clips has returned `rows` to a caller
InitReport ==
    \E rows \in RowLists :
        /\ pc = "executed"
        /\ polygons = NoFrame
        /\ tindex = NoIndex
        /\ intersections = <<>>
        /\ overlay_calls = 0
        /\ matches = <<>>
        /\ las_crs = NoCrsCheck
        /\ raised = None
        /\ message = ""
        /\ cause = None
        /\ options = NoOptions
        /\ planned = <<>>
        /\ empties = <<>>
        /\ sanitized = NoName
        /\ fs = {}
        /\ results = rows
        /\ idx = Len(rows) + 1
        /\ checked = <<>>
        /\ tool = NoTool
        /\ invocations = <<>>
        /\ run = 1
        /\ summary = NoSummary

Summarise ==
    /\ pc = "executed"
    /\ summary' = _summarise_results(results)
    /\ pc' = "summarised"
    /\ UNCHANGED <<matcherVars, raised, message, cause, plannerVars, fs, results, idx,
                   checked, tool, invocations, run>>

NextReport == Summarise

SpecReport == InitReport /\ [][NextReport]_vars

(***************************************************************************)
(* io/polygons.py and core/tindex.py: the readers.  A file on disk is what *)
(* the reader finds: whether it exists, its suffix, whether the driver can *)
(* open it, and the table it holds.                                        *)
(***************************************************************************)
SUPPORTED_EXTENSIONS == {".gpkg", ".shp"}

_CANDIDATE_COLUMNS == <<"filepath", "location", "filename", "file">>

read_polygons(file, layer) ==
    IF ~file.exists THEN Raise("FileNotFoundError", "Polygon source not found")
    ELSE IF file.suffix \notin SUPPORTED_EXTENSIONS
    THEN Raise("ValueError", "Unsupported polygon format")
    ELSE IF file.suffix # ".gpkg" /\ layer # None
    THEN Raise("ValueError", "Shapefile sources do not support layer selection")
    ELSE IF ~file.readable THEN Raise("DriverError", "cannot open the dataset")
    ELSE IF file.frame.index = <<>>
    THEN Raise("ValueError", "Polygon source contains no features")
    ELSE Ok(file.frame)

RECURSIVE first_candidate(_, _)
\* the first of the candidate names that is a column, or None
first_candidate(candidates, columns) ==
    IF candidates = <<>> THEN None
    ELSE IF Head(candidates) \in columns THEN Head(candidates)
    ELSE first_candidate(Tail(candidates), columns)

_normalize_path_column(gdf) ==
    LET column == first_candidate(_CANDIDATE_COLUMNS, gdf.columns) IN
    IF column = None
    THEN Raise("TindexError", "Tile index missing a recognizable path column")
    ELSE IF column # PATH_FIELD
    THEN Ok([gdf EXCEPT !.columns = (@ \ {column}) \cup {PATH_FIELD}])
    ELSE Ok(gdf)

read_tindex(file) ==
    IF ~file.exists THEN Raise("FileNotFoundError", "Tindex file not found")
    ELSE IF ~file.readable THEN Raise("DriverError", "cannot open the dataset")
    ELSE IF file.frame.paths = <<>>
    THEN Raise("TindexError", "Tile index contains no records")
    ELSE LET gdf == _normalize_path_column(file.frame) IN
         IF gdf.raised # None THEN gdf
         ELSE IF gdf.value.crs = None
         THEN Raise("TindexError", "Tile index CRS is undefined; rebuild with CRS information")
         ELSE gdf

(***************************************************************************)
(* cli.py: the try block shared by the `clip` command and run_workflow.    *)
(***************************************************************************)
NothingRead == [poly_gdf |-> NoFrame, tindex_gdf |-> NoIndex, rows |-> <<>>,
                overlay_calls |-> 0, matches |-> <<>>]

\* a handler that notes the failure and lets the command go on
try_block_swallowing_failure(polygon_file, layer, tindex_file, engine) ==
    LET p == read_polygons(polygon_file, layer) IN
    IF p.raised # None
    THEN NothingRead @@ [raised |-> None, message |-> "", cause |-> p.raised]
    ELSE LET t == read_tindex(tindex_file) IN
    IF t.raised # None
    THEN [NothingRead EXCEPT !.poly_gdf = p.value]
         @@ [raised |-> None, message |-> "", cause |-> t.raised]
    ELSE LET m == match_polygons_with_empty_reports(p.value, t.value, engine) IN
         [poly_gdf |-> p.value, tindex_gdf |-> t.value,
          rows |-> IF m.overlay_calls > 0 THEN engine.rows ELSE <<>>,
          overlay_calls |-> m.overlay_calls,
          matches |-> IF m.raised # None THEN <<>> ELSE m.value,
          raised |-> None, message |-> "", cause |-> m.raised]

\* the two readers and the matcher inside one try block; any exception
\* becomes a ClickException carrying its text, chained to it as its cause
try_block(polygon_file, layer, tindex_file, engine) ==
    LET p == read_polygons(polygon_file, layer) IN
    IF p.raised # None
    THEN NothingRead
         @@ [raised |-> "ClickException", message |-> p.message, cause |-> p.raised]
    ELSE LET t == read_tindex(tindex_file) IN
    IF t.raised # None
    THEN [NothingRead EXCEPT !.poly_gdf = p.value]
         @@ [raised |-> "ClickException", message |-> t.message, cause |-> t.raised]
    ELSE LET m == match_polygons_with_empty_reports(p.value, t.value, engine) IN
         [poly_gdf |-> p.value, tindex_gdf |-> t.value,
          rows |-> IF m.overlay_calls > 0 THEN engine.rows ELSE <<>>,
          overlay_calls |-> m.overlay_calls,
          matches |-> IF m.raised # None THEN <<>> ELSE m.value,
          raised |-> IF m.raised # None THEN "ClickException" ELSE None,
          message |-> m.message,
          cause |-> m.raised]

(***************************************************************************)
(* Inputs of the commands: the files the readers are pointed at.           *)
(***************************************************************************)
PolygonFile(exists, suffix, readable, layers, frame) ==
    [exists |-> exists, suffix |-> suffix, readable |-> readable,
     layers |-> layers, frame |-> frame]

\* the frames a command reads: rows that differ, any CRS but the lowercase one
CmdFrames == {f \in MatcherFrames : f.crs # "epsg:4326"}

PolygonFiles ==
    {PolygonFile(TRUE, ".gpkg", TRUE, <<"polys">>, f) : f \in CmdFrames}
    \cup {PolygonFile(TRUE, ".shp", TRUE, <<>>, PolygonFrame(1, "EPSG:4326", DistinctAttrs(1))),
          PolygonFile(TRUE, ".txt", TRUE, <<>>, PolygonFrame(1, "EPSG:4326", DistinctAttrs(1))),
          PolygonFile(TRUE, ".gpkg", FALSE, <<>>, NoFrame),
          PolygonFile(TRUE, ".gpkg", TRUE, <<"polys">>, NoFrame),
          PolygonFile(FALSE, ".gpkg", FALSE, <<>>, NoFrame)}

TindexFile(exists, readable, frame) ==
    [exists |-> exists, readable |-> readable, frame |-> frame]

TindexFiles ==
    {TindexFile(TRUE, TRUE, t) : t \in TileIndexes}
    \cup {TindexFile(TRUE, TRUE, [columns |-> {"geometry", "id"}, crs |-> "EPSG:4326",
                                  paths |-> <<T1>>]),
          TindexFile(TRUE, TRUE, [columns |-> {"geometry", "filepath"}, crs |-> "EPSG:4326",
                                  paths |-> <<>>]),
          TindexFile(TRUE, FALSE, NoIndex),
          TindexFile(FALSE, FALSE, NoIndex)}

LayerOptions == {None, "polys"}

\* the engine is consulted only when both reads succeed and the matcher
\* reaches gpd.overlay
EngineChoicesFor(polygon_file, layer, tindex_file) ==
    LET p == read_polygons(polygon_file, layer)
        t == read_tindex(tindex_file)
    IN  IF p.raised # None \/ t.raised # None THEN {NotCalled}
        ELSE EngineChoices(p.value, t.value)

(***************************************************************************)
(* cli.py: the `clip` command.  click has checked that both files exist.   *)
(***************************************************************************)
\* the local names bound in clip_cmd when line 388 is evaluated; the module
\* binds Path, click, clipper, paths, tindex, polygons and its own functions
ClipCmdNames ==
    {"polygons_path", "layer", "name_field", "tindex_path", "tindex_layer", "outdir",
     "suffix", "poly_gdf", "tindex_gdf", "matches", "_", "name_wrapper", "planned",
     "empties", "pid"}

\* evaluating a name: bound, or NameError
load_name(name, names) ==
    IF name \in names THEN Ok(name) ELSE Raise("NameError", "name is not defined")

CommandTried(attempt, where) ==
    /\ polygons' = attempt.poly_gdf
    /\ tindex' = attempt.tindex_gdf
    /\ intersections' = attempt.rows
    /\ overlay_calls' = overlay_calls + attempt.overlay_calls
    /\ matches' = attempt.matches
    /\ las_crs' = las_crs
    /\ raised' = attempt.raised
    /\ message' = attempt.message
    /\ cause' = attempt.cause
    /\ pc' = IF attempt.raised # None THEN "exited" ELSE where

\* lines 375-380
ClipCmdTry ==
    /\ pc = "idle"
    /\ \E polygon_file \in {f \in PolygonFiles : f.exists},
          tindex_file \in {f \in TindexFiles : f.exists},
          layer \in LayerOptions :
         \E engine \in EngineChoicesFor(polygon_file, layer, tindex_file) :
            CommandTried(try_block(polygon_file, layer, tindex_file, engine),
                         "clip_matched")
    /\ UNCHANGED <<plannerVars, executorVars>>

\* lines 382-386: the plan, and one log line per polygon without sources
ClipCmdPlan ==
    /\ pc = "clip_matched"
    /\ \E naming \in NamingChoices :
         LET name_wrapper == _build_name_wrapper(polygons, naming.field, naming.suffix)
             plan == _plan_outputs(polygons, matches, OutDir, name_wrapper)
         IN  /\ options' = [field |-> naming.field, suffix |-> naming.suffix,
                            outdir |-> OutDir, overwrite |-> FALSE,
                            crs_policy |-> options.crs_policy]
             /\ planned' = plan.planned
             /\ empties' = plan.empties
    /\ pc' = "clip_planned"
    /\ UNCHANGED <<matcherVars, raised, message, cause, sanitized, executorVars>>

\* line 388: the arguments of _execute_clips are evaluated first, among
\* them the name poly_crs; only then does the executor start
ClipCmdExecute ==
    /\ pc = "clip_planned"
    /\ LET argument == load_name("poly_crs", ClipCmdNames) IN
       /\ raised' = argument.raised
       /\ message' = argument.message
       /\ pc' = IF argument.raised # None THEN "exited"
                ELSE IF planned = <<>> THEN "executed" ELSE "executing"
       /\ run' = IF argument.raised # None THEN run ELSE run + 1
       /\ idx' = IF argument.raised # None THEN idx ELSE 1
    /\ UNCHANGED <<matcherVars, cause, plannerVars, fs, results, checked, tool,
                   invocations, summary>>

(***************************************************************************)
(* cli.py: run_workflow, which starts with the setup wizard.               *)
(***************************************************************************)
\* the fields of the dataclass RunConfig (io/config.py)
RunConfigFields ==
    {"polygons", "polygons_layer", "las_roots", "tindex_path", "tindex_layer",
     "output_dir", "name_field", "suffix", "fast_boundary", "overwrite", "dry_run"}

\* the keywords the wizard passes to RunConfig
WizardKeywords ==
    {"polygons", "polygons_layer", "las_roots", "tindex_path", "tindex_layer",
     "output_dir", "name_field", "suffix", "fast_boundary", "target_srs"}

\* the parameters build_tindex declares, and the keywords and positions
\* run_workflow fills
BuildTindexParameters == {"roots", "output", "layer", "driver", "overwrite", "fast_boundary"}
BuildTindexArguments ==
    {"roots", "output", "layer", "driver", "overwrite", "fast_boundary", "target_srs"}

\* The operator's answers: the polygon file named, the numbers typed for the
\* layer and the naming field, whether the LAS root is a directory.
WizardAnswers ==
    [polygon_file : PolygonFiles, layer_index : {1, 2}, field_index : {1, 2},
     las_root_is_dir : BOOLEAN]

Stop(text, because) ==
    [raised |-> "ClickException", message |-> text, cause |-> because, made |-> {}]

\* _run_wizard: the exception that ends it (it never returns a RunConfig
\* unless RunConfig accepts the keywords) and the directories it made
_run_wizard(answers) ==
    LET file == answers.polygon_file
        layers == IF file.suffix = ".gpkg" THEN file.layers ELSE <<>>
        polygons_layer == IF layers # <<>> /\ answers.layer_index \in 1..Len(layers)
                          THEN layers[answers.layer_index] ELSE None
        preview == read_polygons(file, polygons_layer)
        fields == <<"name">>
    IN  IF ~file.exists THEN Stop("Polygon dataset not found", None)
        ELSE IF layers # <<>> /\ answers.layer_index \notin 1..Len(layers)
        THEN Stop("Layer selection out of range", None)
        ELSE IF preview.raised # None
        THEN Stop("Failed to read polygons", preview.raised)
        ELSE IF preview.value.crs = None
        THEN Stop("Polygon dataset has no defined CRS.", None)
        ELSE IF answers.field_index \notin 1..Len(fields)
        THEN Stop("Naming field selection out of range", None)
        ELSE IF ~answers.las_root_is_dir
        THEN Stop("LAS root directory not found", None)
        ELSE IF ~(WizardKeywords \subseteq RunConfigFields)
        THEN [raised |-> "TypeError",
              message |-> "__init__() got an unexpected keyword argument",
              cause |-> None, made |-> {OutDir}]
        ELSE [raised |-> None, message |-> "", cause |-> None, made |-> {OutDir}]

\* lines 258-275: the wizard, then build_tindex inside a try block whose
\* handler raises ClickException from the exception.  The wizard ends the
\* command, so that lines 277-296 (the try block of the clip command, the
\* planner and the executor again) are never reached.
RunWorkflow ==
    /\ pc = "idle"
    /\ \E answers \in WizardAnswers :
         LET config == _run_wizard(answers) IN
         /\ fs' = fs \cup config.made
         /\ IF config.raised # None
            THEN /\ raised' = config.raised
                 /\ message' = config.message
                 /\ cause' = config.cause
                 /\ pc' = "exited"
            ELSE IF ~(BuildTindexArguments \subseteq BuildTindexParameters)
            THEN /\ raised' = "ClickException"
                 /\ message' = "build_tindex() got an unexpected keyword argument"
                 /\ cause' = "TypeError"
                 /\ pc' = "exited"
            ELSE /\ raised' = None
                 /\ message' = ""
                 /\ cause' = None
                 /\ pc' = "tindex_built"
    /\ UNCHANGED <<matcherVars, plannerVars, results, idx, checked, tool, invocations, run,
                   summary>>

InitCmd == Idle({})

NextCmd == ClipCmdTry \/ ClipCmdPlan \/ ClipCmdExecute \/ RunWorkflow

SpecCmd == InitCmd /\ [][NextCmd]_vars

(***************************************************************************)
(* Properties of the matcher, checked under SpecMatch.                     *)
(***************************************************************************)
PolygonIds == Range(polygons.index)

EntriesOf(id) == {i \in 1..Len(matches) : matches[i].polygon_id = id}

HasIntersection(id) == \E r \in 1..Len(intersections) : intersections[r].index = id

\* C1: when match_polygons_with_empty_reports returns, its result holds
\* exactly one PolygonSources for every polygon id of the input frame and
\* none for any other id, and a polygon the engine reported no tile for has
\* an empty source_paths.
C1_Completeness ==
    pc = "matched" =>
        /\ \A id \in PolygonIds : Cardinality(EntriesOf(id)) = 1
        /\ \A i \in 1..Len(matches) : matches[i].polygon_id \in PolygonIds
        /\ \A i \in 1..Len(matches) :
              ~HasIntersection(matches[i].polygon_id) => matches[i].source_paths = <<>>

\* a frame of three polygons of which one has sources and another has none
C1_Witness ==
    /\ pc = "matched"
    /\ Len(polygons.index) = 3
    /\ \E i, j \in 1..Len(matches) :
          matches[i].source_paths = <<>> /\ matches[j].source_paths # <<>>

\* C2: the result of match_polygons_with_empty_reports is in ascending
\* order of polygon_id, whatever order the engine reported the pairs in and
\* wherever the empty entries were appended.
C2_Ordering ==
    pc = "matched" =>
        \A i, j \in 1..Len(matches) :
            i < j => matches[i].polygon_id <= matches[j].polygon_id

\* the engine reported a higher polygon id first, and a polygon without
\* sources (appended last) has a smaller id than a matched polygon
C2_Witness ==
    /\ pc = "matched"
    /\ Len(intersections) >= 2
    /\ intersections[1].index > intersections[2].index
    /\ \E i, j \in 1..Len(matches) :
          /\ matches[i].source_paths = <<>>
          /\ matches[j].source_paths # <<>>
          /\ matches[i].polygon_id < matches[j].polygon_id

CrsMismatch ==
    /\ polygons.crs # None
    /\ tindex.crs # None
    /\ to_string(polygons.crs) # to_string(tindex.crs)

\* C8: a matcher call whose polygon frame and tile index have different
\* canonical CRS strings ends in SourceSelectionError with gpd.overlay never
\* called and nothing returned; when the tile index has its path column (so
\* that the CRS check is reached) the error is the CRS-differ error.
C8_CrsMismatchRejected ==
    (pc # "idle" /\ CrsMismatch) =>
        /\ pc = "matcher_raised"
        /\ raised = "SourceSelectionError"
        /\ overlay_calls = 0
        /\ intersections = <<>>
        /\ matches = <<>>
        /\ (PATH_FIELD \in tindex.columns => message = CrsDiffer)

\* a call with both CRSes defined and different was rejected by the CRS check
C8_Witness ==
    /\ pc = "matcher_raised"
    /\ CrsMismatch
    /\ PATH_FIELD \in tindex.columns
    /\ message = CrsDiffer

(***************************************************************************)
(* Properties of the planner and the executor, checked under Spec.         *)
(***************************************************************************)
HasSources(record) == record.source_paths # <<>>
HasNoSources(record) == record.source_paths = <<>>

PlannedIds == [k \in 1..Len(planned) |-> planned[k].record.polygon_id]

Occurrences(seq, x) == Cardinality({k \in 1..Len(seq) : seq[k] = x})

\* C9: after _plan_outputs every polygon id of the matcher's output is in
\* exactly one of the plan and the empties list, it is in the empties list
\* iff its source_paths is empty, and the plan entries and the empties are
\* the matcher's records with / without sources in the matcher's order.
C9_PlannerPartition ==
    pc # "matched" =>
        /\ \A i \in 1..Len(matches) :
              /\ Occurrences(PlannedIds, matches[i].polygon_id)
                    + Occurrences(empties, matches[i].polygon_id) = 1
              /\ Occurrences(empties, matches[i].polygon_id) = 1
                    <=> matches[i].source_paths = <<>>
        /\ [k \in 1..Len(planned) |-> planned[k].record] = SelectSeq(matches, HasSources)
        /\ LET without == SelectSeq(matches, HasNoSources) IN
           empties = [k \in 1..Len(without) |-> without[k].polygon_id]

\* a plan made from three polygons with both lists non-empty
C9_Witness ==
    /\ pc = "planned"
    /\ Len(matches) = 3
    /\ planned # <<>>
    /\ empties # <<>>

InvocationsFor(r, i) ==
    {k \in 1..Len(invocations) : invocations[k].run = r /\ invocations[k].entry = i}

\* C3: an entry whose output path exists when the loop reaches it gets the
\* row with status `exists`; that step runs the external tool zero times
\* and leaves the filesystem as it was.
C3_ExistsSkipped ==
    [][(pc = "executing" /\ planned[idx].output_path \in fs) =>
          /\ results' = Append(results,
                [polygon_id |-> planned[idx].record.polygon_id,
                 output |-> str_path(planned[idx].output_path),
                 sources |-> Len(planned[idx].record.source_paths),
                 status |-> "exists"])
          /\ invocations' = invocations
          /\ fs' = fs]_vars

\* an entry was reached with its output present and recorded as `exists`
C3_Witness ==
    /\ pc \in {"executing", "executed"}
    /\ \E i \in 1..Len(results) :
          /\ checked[i]
          /\ results[i].status = "exists"
          /\ planned[i].output_path \in fs
          /\ InvocationsFor(run, i) = {}

\* C4: an entry whose output path does not exist and for which the external
\* tool succeeds is run through the tool exactly once and gets `written`.
C4_SuccessWritten ==
    (pc \in {"executing", "executed"} /\ results # <<>>) =>
        LET i == Len(results) IN
        (~checked[i] /\ tool.returncode = 0) =>
            /\ Cardinality(InvocationsFor(run, i)) = 1
            /\ results[i].status = "written"

RowFollows(j) ==
    results[j].status =
        IF checked[j] THEN "exists"
        ELSE IF tool.returncode = 0 THEN "written" ELSE "error"

\* C5: when an entry has failed, every later entry is still processed and
\* gets `exists` or `written` (or `error`) by its own existence check and
\* its own run of the tool; the result has one row per plan entry.
C5_FailureIsolated ==
    /\ pc = "executed" => Len(results) = Len(planned)
    /\ (pc \in {"executing", "executed"} /\ results # <<>>) =>
          LET j == Len(results) IN
          (\E k \in 1..(j - 1) : results[k].status = "error") => RowFollows(j)

\* C6: a second run over the same plan and directory records `exists` for
\* every entry and runs the external tool for none.
C6_IdempotentRerun ==
    (run = 2 /\ pc = "executed") =>
        /\ \A i \in 1..Len(results) : results[i].status = "exists"
        /\ \A i \in 1..Len(planned) : InvocationsFor(2, i) = {}

\* C7: the rows correspond to the plan entries one to one and in order:
\* row i has the polygon_id, the output path and the source count of plan
\* entry i and a status among written, exists, error; the returned list has
\* as many rows as the plan has entries.
C7_RowsMatchPlan ==
    pc \in {"executing", "executed"} =>
        /\ Len(results) = idx - 1
        /\ pc = "executed" => Len(results) = Len(planned)
        /\ \A i \in 1..Len(results) :
              /\ results[i].polygon_id = planned[i].record.polygon_id
              /\ results[i].output = str_path(planned[i].output_path)
              /\ results[i].sources = Len(planned[i].record.source_paths)
              /\ results[i].status \in {"written", "exists", "error"}

\* a finished run over at least two entries with an error row and an
\* exists row
C7_Witness ==
    /\ pc = "executed"
    /\ Len(results) >= 2
    /\ \E i, j \in 1..Len(results) :
          results[i].status = "error" /\ results[j].status = "exists"

(***************************************************************************)
(* Properties of the commands, checked under SpecCmd.                      *)
(***************************************************************************)
\* C10: in the clip command and run_workflow, when reading the polygons,
\* reading the tile index or matching raises, the command ends with that
\* one failure (a ClickException carrying it): no match list is kept, no
\* plan is built, the external tool is never run and no file is created;
\* and once a command has ended no further step changes plan, tool runs or
\* files.
C10_MatchingErrorsFatal ==
    /\ [](cause # None =>
            /\ pc = "exited"
            /\ raised = "ClickException"
            /\ matches = <<>>
            /\ planned = <<>>
            /\ empties = <<>>
            /\ results = <<>>
            /\ invocations = <<>>
            /\ run = 0
            /\ fs = {})
    /\ [][pc = "exited" =>
            (planned' = planned /\ invocations' = invocations /\ fs' = fs)]_vars

\* both files were read and the matcher raised: the command ended with the
\* ClickException chained to the matcher's SourceSelectionError
C10_Witness ==
    /\ pc = "exited"
    /\ raised = "ClickException"
    /\ cause = "SourceSelectionError"
    /\ polygons # NoFrame
    /\ tindex # NoIndex
    /\ planned = <<>>
    /\ invocations = <<>>

(***************************************************************************)
(* Further properties of the executor, checked under Spec.                 *)
(***************************************************************************)
\* C11: when the external tool fails for an entry whose output does not
\* exist, the entry's row has status `error` and its error field is the
\* tool's stderr text unchanged.
C11_VerbatimError ==
    (pc \in {"executing", "executed"} /\ results # <<>>) =>
        LET i == Len(results) IN
        (~checked[i] /\ tool.returncode # 0) =>
            /\ results[i].status = "error"
            /\ results[i].error = tool.stderr

\* C12: with the caller's overwrite flag set, an entry whose output exists
\* is not skipped: the step runs the external tool once and the row is not
\* `exists`; with the flag not set, such an entry leaves the filesystem and
\* the tool-run log as they were.
C12_OverwriteFlag ==
    [][(pc = "executing" /\ planned[idx].output_path \in fs) =>
          IF options.overwrite
          THEN /\ Len(invocations') = Len(invocations) + 1
               /\ results'[Len(results')].status # "exists"
          ELSE /\ invocations' = invocations
               /\ fs' = fs]_vars

(***************************************************************************)
(* Further properties of the matcher, checked under SpecMatch.             *)
(***************************************************************************)
\* C13: the caller's reconciliation policy decides what a CRS mismatch
\* does: under the strict policy the call fails, under the permissive
\* policy (path column present, both CRSes defined) the call does not fail.
C13_PolicyConfigurable ==
    (pc # "idle" /\ CrsMismatch /\ PATH_FIELD \in tindex.columns) =>
        IF options.crs_policy = "strict"
        THEN pc = "matcher_raised"
        ELSE pc # "matcher_raised" /\ raised = None

\* C14: whenever a matcher call fails (no path column, CRS validation or
\* reconciliation failing, or the engine's intersection call failing) the
\* exception is SourceSelectionError and nothing is returned.
C14_MatcherFailureType ==
    pc = "matcher_raised" =>
        /\ raised = "SourceSelectionError"
        /\ matches = <<>>

(***************************************************************************)
(* More properties of the executor, checked under Spec.                    *)
(***************************************************************************)
InvocationsTargeting(r, path) ==
    {k \in 1..Len(invocations) : invocations[k].run = r /\ invocations[k].output = path}

C17_Sequential ==
    [][pc = "executing" =>
          /\ Len(results) = idx - 1
          /\ Len(checked) = idx - 1
          /\ checked' = Append(checked, planned[idx].output_path \in fs)
          /\ Len(results') = idx
          /\ results'[idx].polygon_id = planned[idx].record.polygon_id
          /\ idx' = idx + 1
          /\ Len(invocations') <= Len(invocations) + 1
          /\ \A k \in (Len(invocations) + 1)..Len(invocations') :
                /\ invocations'[k].entry = idx
                /\ invocations'[k].run = run
                /\ invocations'[k].returncode \in {0, 1}]_vars

\* the loop is between the first and the second entry of a plan
C17_Witness ==
    /\ pc = "executing"
    /\ idx = 2
    /\ Len(results) = 1
    /\ Len(checked) = 1
    /\ Len(planned) >= 2

(***************************************************************************)
(* Properties of the run reporter, checked under SpecReport.               *)
(***************************************************************************)
StatusCount(status) == Cardinality({i \in 1..Len(results) : results[i].status = status})

ErrorRowIndexes == {i \in 1..Len(results) : results[i].status = "error"}

\* C18: after _summarise_results, written and skipped are the numbers of
\* `written` and `exists` rows, the error list is the `error` rows in result
\* order, the three numbers add up to the number of rows, the first line
\* logged carries the three counts, and one line per error row (polygon id,
\* output path, message) is logged, in order, and none without errors.
C18_SummaryAccounting ==
    pc = "summarised" =>
        /\ summary.written = StatusCount("written")
        /\ summary.skipped = StatusCount("exists")
        /\ summary.errors = SelectSeq(results, IsError)
        /\ Len(summary.errors) = StatusCount("error")
        /\ summary.written + summary.skipped + Len(summary.errors) = Len(results)
        /\ summary.lines[1] =
              SummaryLine(StatusCount("written"), StatusCount("exists"), StatusCount("error"))
        /\ LET error_lines == SelectSeq(Tail(summary.lines),
                                        LAMBDA line : "polygon_id" \in DOMAIN line)
           IN  /\ Len(error_lines) = Cardinality(ErrorRowIndexes)
               /\ \A k \in 1..Len(error_lines) :
                     /\ error_lines[k].polygon_id = summary.errors[k].polygon_id
                     /\ error_lines[k].output = summary.errors[k].output
                     /\ error_lines[k].error = summary.errors[k].error
        /\ (ErrorRowIndexes = {} => Len(summary.lines) = 1)

\* a summary of three rows, one of each status
C18_Witness ==
    /\ pc = "summarised"
    /\ Len(results) = 3
    /\ \A status \in {"written", "exists", "error"} : StatusCount(status) = 1
    /\ Len(summary.lines) = 3

(***************************************************************************)
(* The name resolvers of core/utils.py and core/naming.py as functions of  *)
(* a text and a suffix: each is applied to every text over NameChars of at *)
(* most MaxLen characters, then its name getter to every suffix of at most *)
(* MaxSuffixLen characters.                                                *)
(***************************************************************************)
MaxLen == 4
MaxSuffixLen == 1

\* a letter, a digit, the hyphen, the underscore, the path separator and a
\* letter outside ASCII
NameChars == {"a", "1", "-", "_", "/", "é"}

TextsUpTo(n) == UNION {[1..k -> NameChars] : k \in 0..n}

\* sanitize(value) of both modules
Sanitize ==
    /\ pc = "idle"
    /\ \E value \in TextsUpTo(MaxLen) :
         sanitized' = [NoName EXCEPT !.text = value,
                                     !.utils = sanitize(value),
                                     !.naming = naming_sanitize(value)]
    /\ pc' = "sanitized"
    /\ UNCHANGED <<matcherVars, raised, message, cause, options, planned, empties,
                   executorVars>>

\* the getter of both modules for the field "name", applied to {"name": text}
ResolveName ==
    /\ pc = "sanitized"
    /\ \E suffix \in TextsUpTo(MaxSuffixLen) :
         LET attributes == [name |-> sanitized.text] IN
         sanitized' = [sanitized EXCEPT
            !.suffix = suffix,
            !.utils_name = name_getter([field |-> "name", suffix |-> suffix], attributes),
            !.naming_name = naming_name_getter("name", suffix, attributes)]
    /\ pc' = "named"
    /\ UNCHANGED <<matcherVars, raised, message, cause, options, planned, empties,
                   executorVars>>

InitName == Idle({})
NextName == Sanitize \/ ResolveName
SpecName == InitName /\ [][NextName]_vars

\* C19: sanitizing a sanitized text gives the same text, for the sanitize of
\* core/utils.py and for the one of core/naming.py, and so does sanitizing
\* the whole resolved name (stem, underscore, sanitized suffix).
C19_SanitizeIdempotent ==
    /\ pc \in {"sanitized", "named"} =>
         /\ sanitize(sanitized.utils) = sanitized.utils
         /\ naming_sanitize(sanitized.naming) = sanitized.naming
    /\ pc = "named" =>
         /\ sanitize(sanitized.utils_name) = sanitized.utils_name
         /\ naming_sanitize(sanitized.naming_name) = sanitized.naming_name

\* a text that sanitize changed, resolved with a suffix that it changed too
C19_Witness ==
    /\ pc = "named"
    /\ sanitized.text = <<"_", "/", "a", "/">>
    /\ sanitized.utils = <<"a">>
    /\ sanitized.suffix = <<"/">>
    /\ sanitized.utils_name = <<"a", "_">> \o Unnamed
    /\ sanitized.naming_name = <<"a", "_">> \o Unnamed

\* the letters, digits, hyphen and underscore of the texts
AllowedChars == Letters \cup Digits \cup NonAsciiLetters \cup {"-", "_"}

\* every character outside AllowedChars replaced by an underscore
replaced_one_by_one(value) ==
    [i \in 1..Len(value) |-> IF value[i] \in AllowedChars THEN value[i] ELSE "_"]

\* C20: sanitize replaces each character outside {letters, digits, hyphen,
\* underscore} by an underscore, trims the underscores at both ends and
\* returns the default literal when nothing remains; hence its result is
\* never empty, never starts or ends with an underscore and contains only
\* letters, digits, hyphens and underscores. Stated of both modules.
C20_SanitizationResult ==
    pc \in {"sanitized", "named"} =>
        LET trimmed == strip(replaced_one_by_one(sanitized.text), "_")
            expected == IF trimmed = <<>> THEN Unnamed ELSE trimmed
        IN  \A result \in {sanitized.utils, sanitized.naming} :
              /\ result = expected
              /\ result # <<>>
              /\ Head(result) # "_"
              /\ result[Len(result)] # "_"
              /\ \A i \in 1..Len(result) : result[i] \in AllowedChars
              /\ \A i \in 1..Len(result) : result[i] # "/"

\* the base name the getter starts from when the configured field is set and
\* present in the attributes, and the one literal it falls back to otherwise
base_or_literal(field, attributes, literal) ==
    IF field # None /\ field \in DOMAIN attributes THEN attributes[field] ELSE literal

\* C21: the name getter takes the configured field's value as the base name
\* when the field is configured and present in the polygon's attributes, and
\* one fixed literal base name ("polygon") in every other case: no field
\* configured, or a field the attributes do not have.
C21_BaseSelection ==
    pc = "planned" =>
        \A i \in 1..Len(planned) :
            LET attributes == row_attributes(polygons, planned[i].record.polygon_id)
                stem == sanitize(base_or_literal(options.field, attributes, Polygon))
                name == IF options.suffix # NoText
                        THEN stem \o <<"_">> \o sanitize(options.suffix)
                        ELSE stem
            IN  planned[i].output_path = build_output_path(name, options.outdir)

\* the polygon ids of the result rows, in order
RowIds(rows) == [i \in 1..Len(rows) |-> rows[i].polygon_id]

\* C22: the clip command and the full workflow run matcher, planner,
\* executor and reporter in that order and end with a run summary that
\* covers every planned polygon; a command that ends before that ends with
\* the user-facing failure (ClickException) of an input, CRS or matching
\* error, before anything is planned.
C22_SingleClipPass ==
    /\ pc = "exited" =>
         /\ raised = "ClickException"
         /\ planned = <<>>
         /\ empties = <<>>
    /\ pc = "summarised" =>
         /\ RowIds(results) = [i \in 1..Len(planned) |-> planned[i].record.polygon_id]
         /\ summary.written + summary.skipped + summary.errors = Len(planned)

\* the rows the engine reported for one polygon, in the order it reported them
RowsReportedFor(id) == SelectSeq(intersections, LAMBDA row : row.index = id)

\* C23: in the result of either matcher function the source_paths of every
\* polygon are the paths of the tile rows the engine reported for it, all of
\* them and no other, in the engine's order; every polygon the engine
\* reported a row for has an entry.
C23_MatcherGrouping ==
    pc \in {"sources_returned", "matched"} =>
        /\ \A i \in 1..Len(matches) :
              LET rows == RowsReportedFor(matches[i].polygon_id) IN
              matches[i].source_paths = [k \in 1..Len(rows) |-> Path(rows[k].filepath)]
        /\ \A r \in 1..Len(intersections) :
              \E i \in 1..Len(matches) : matches[i].polygon_id = intersections[r].index

\* polygons 0, 1, 2 with T1 intersecting 0 and 2 and T2 intersecting 0 only,
\* the rows of polygon 0 reported with the row of polygon 2 between them
C23_Witness ==
    /\ pc = "matched"
    /\ intersections = << [index |-> 0, filepath |-> T1],
                          [index |-> 2, filepath |-> T1],
                          [index |-> 0, filepath |-> T2] >>
    /\ matches = << PolygonSources(0, <<Path(T1), Path(T2)>>),
                    PolygonSources(1, <<>>),
                    PolygonSources(2, <<Path(T1)>>) >>

\* C24: in every PolygonSources a matcher call returns, no file path occurs
\* twice in source_paths, whatever the tile index holds, also when several of
\* its rows carry the same file path.
C24_NoDuplicateSources ==
    pc \in {"sources_returned", "matched"} =>
        \A i \in 1..Len(matches) :
            \A j, k \in 1..Len(matches[i].source_paths) :
                j # k => matches[i].source_paths[j] # matches[i].source_paths[k]

\* pairs of plan entries of distinct polygons with one output path
Collisions ==
    {<<i, j>> \in (1..Len(planned)) \X (1..Len(planned)) :
        /\ i < j
        /\ planned[i].record.polygon_id # planned[j].record.polygon_id
        /\ planned[i].output_path = planned[j].output_path}

\* C25: when two distinct polygons of one plan resolve to the same output
\* path the executor keeps both entries and their path, and the later of
\* the two gets the row with status `exists` and is not passed to the clip
\* operation.
C25_CollisionSurfacesAsExists ==
    pc = "executed" =>
        \A pair \in Collisions :
            /\ results[pair[1]].output = str_path(planned[pair[1]].output_path)
            /\ results[pair[2]].output = str_path(planned[pair[2]].output_path)
            /\ results[pair[2]].status = "exists"
            /\ InvocationsFor(run, pair[2]) = {}

(***************************************************************************)
(* core/crs.py called directly: ensure_consistent_las_crs applied to every *)
(* collection of at most MaxCrs descriptors, each absent, unparseable or   *)
(* one of the definitions.                                                 *)
(***************************************************************************)
MaxCrs == 3

CrsCollections ==
    UNION {[1..n -> {None} \cup UnparseableCrs \cup CrsDefinitions] : n \in 0..MaxCrs}

EnsureConsistentLasCrs ==
    /\ pc = "idle"
    /\ \E crs_candidates \in CrsCollections :
         LET outcome == ensure_consistent_las_crs(crs_candidates) IN
         /\ las_crs' = [candidates |-> crs_candidates, called |-> TRUE,
                        value |-> outcome.value]
         /\ raised' = outcome.raised
         /\ message' = outcome.message
         /\ pc' = IF outcome.raised = None THEN "crs_returned" ELSE "crs_raised"
    /\ UNCHANGED <<polygons, tindex, intersections, overlay_calls, matches, cause,
                   plannerVars, executorVars>>

InitCrs == Idle({})
NextCrs == EnsureConsistentLasCrs
SpecCrs == InitCrs /\ [][NextCrs]_vars

\* the three kinds of failure, told apart by the text of the exception
UndefinedTexts == {"Encountered LAS source without CRS", "No LAS CRS information was provided"}
InvalidTexts == {"Invalid CRS"}
MismatchTexts == {"Mixed CRS detected across LAS sources"}

AnyAbsent(c) == c = <<>> \/ \E i \in 1..Len(c) : c[i] = None
AnyUnparseable(c) == \E i \in 1..Len(c) : c[i] \in UnparseableCrs
CanonicalForms(c) == {to_string(c[i]) : i \in {k \in 1..Len(c) : c[k] \in CrsDefinitions}}

FailsWith(texts) == raised = "CRSValidationError" /\ message \in texts /\ pc = "crs_raised"

\* C26: ensure_consistent_las_crs fails with the undefined-CRS error if any
\* descriptor is absent or the collection is empty, with the invalid-CRS
\* error if a descriptor cannot be parsed, with the mismatch error if more
\* than one canonical form is present, and otherwise returns the one shared
\* CRS; the three kinds of failure are different.
C26_CrsCollectionValidation ==
    las_crs.called =>
        LET c == las_crs.candidates IN
        /\ AnyAbsent(c) => FailsWith(UndefinedTexts)
        /\ (~AnyAbsent(c) /\ AnyUnparseable(c)) => FailsWith(InvalidTexts)
        /\ (~AnyAbsent(c) /\ ~AnyUnparseable(c) /\ Cardinality(CanonicalForms(c)) > 1)
              => FailsWith(MismatchTexts)
        /\ (~AnyAbsent(c) /\ ~AnyUnparseable(c) /\ Cardinality(CanonicalForms(c)) = 1)
              => /\ pc = "crs_returned"
                 /\ raised = None
                 /\ CanonicalForms(c) = {to_string(las_crs.value)}
        /\ UndefinedTexts \cap InvalidTexts = {}
        /\ UndefinedTexts \cap MismatchTexts = {}
        /\ InvalidTexts \cap MismatchTexts = {}

\* the positions of the descriptors that are absent or cannot be parsed
Offenders(c) == {i \in 1..Len(c) : c[i] = None \/ c[i] \in UnparseableCrs}
FirstOffender(c) == CHOOSE i \in Offenders(c) : \A k \in Offenders(c) : i <= k

\* C26 as amended: the first descriptor that is absent or cannot be parsed
\* decides between the undefined-CRS and the invalid-CRS error; without such
\* a descriptor the call fails with the undefined-CRS error on an empty
\* collection, with the mismatch error on more than one canonical form, and
\* otherwise returns the first descriptor's CRS, whose canonical form is the
\* one all share.
C26_FirstOffenderDecides ==
    las_crs.called =>
        LET c == las_crs.candidates IN
        IF Offenders(c) # {}
        THEN IF c[FirstOffender(c)] = None
             THEN FailsWith({"Encountered LAS source without CRS"})
             ELSE FailsWith(InvalidTexts)
        ELSE IF c = <<>> THEN FailsWith({"No LAS CRS information was provided"})
        ELSE IF Cardinality(CanonicalForms(c)) > 1 THEN FailsWith(MismatchTexts)
        ELSE /\ pc = "crs_returned"
             /\ raised = None
             /\ las_crs.value = c[1]
             /\ CanonicalForms(c) = {to_string(las_crs.value)}

\* an unparseable descriptor ahead of an absent one: the invalid-CRS error
C26_Witness ==
    /\ las_crs.called
    /\ las_crs.candidates = <<"EPSG:4326", "bogus", None>>
    /\ pc = "crs_raised"
    /\ message = "Invalid CRS"

PolygonsWithSources ==
    {matches[i].polygon_id : i \in {k \in 1..Len(matches) : matches[k].source_paths # <<>>}}

\* C28: every run of the external tool is for a polygon with at least one
\* source file; a polygon of the empties list never reaches the tool and
\* never gets a result row, so that the polygon ids of the rows of a
\* finished run are the polygons with at least one intersecting tile.
C28_NoClipWithoutSources ==
    /\ \A k \in 1..Len(invocations) :
          /\ planned[invocations[k].entry].record.source_paths # <<>>
          /\ planned[invocations[k].entry].record.polygon_id \notin Range(empties)
    /\ pc \in {"executing", "executed"} =>
          \A i \in 1..Len(results) :
              /\ results[i].polygon_id \notin Range(empties)
              /\ results[i].sources >= 1
    /\ pc = "executed" => Range(RowIds(results)) = PolygonsWithSources

\* a finished run over a frame of which one polygon has no source and
\* another has a row
C28_Witness ==
    /\ pc = "executed"
    /\ empties # <<>>
    /\ results # <<>>
    /\ \E i \in 1..Len(matches) :
          matches[i].source_paths = <<>> /\ matches[i].polygon_id \in Range(empties)

====
